---- MODULE Spec2Model ----
(***************************************************************************)
(* A model of File_Deletion.py: the task store (tasks.json), the commands  *)
(* --add / --list / --remove, the daemon mode with its background          *)
(* scheduler, and the deletion job file_deletion_task.                     *)
(*                                                                         *)
(* Strings whose characters matter (file names, extensions, the entries of *)
(* formats) are sequences of one-character strings, so that str.lower and  *)
(* os.path.splitext are computed and not assumed.                          *)
(***************************************************************************)
EXTENDS Bags, FiniteSets, Integers, Sequences, TLC

VARIABLES
    tasksFile,  \* the file TASKS_FILE on disk
    cli,        \* the process of the command being run
    peer,       \* a second command process, between two of its steps (SpecConc)
    daemon,     \* the daemon process (no command given) and its scheduler
    fs,         \* the files that exist under the directories the jobs scan
    run,        \* the outcome of the last execution of file_deletion_task
    reported,   \* the calls of log_to_mongodb made by the last step
    lastLoad,   \* the outcome of the last call of load_tasks
    assigned    \* history: the task names add_file_deletion_task has stored so far

vars == <<tasksFile, cli, peer, daemon, fs, run, reported, lastLoad, assigned>>

----------------------------------------------------------------------------
(* Bounds and program constants *)

\* at most this many entries in the store
MaxTasks == 2

\* age_days * 86400
SecondsPerDay == 86400

----------------------------------------------------------------------------
(* Strings *)

\* str.lower() on one character
LowerChar(c) ==
    CASE c = "L" -> "l"
      [] c = "O" -> "o"
      [] c = "G" -> "g"
      [] c = "T" -> "t"
      [] c = "M" -> "m"
      [] c = "P" -> "p"
      [] OTHER -> c

\* str.lower()
Lower(s) == [i \in 1..Len(s) |-> LowerChar(s[i])]

\* s.rfind("."): the last index of a dot, 0 when there is none
LastDot(s) ==
    IF \E i \in 1..Len(s) : s[i] = "."
    THEN CHOOSE i \in 1..Len(s) : s[i] = "." /\ \A j \in (i+1)..Len(s) : s[j] # "."
    ELSE 0

\* os.path.splitext(file)[1] for a file name without separators: the part
\* from the last dot on, unless only dots precede that dot
splitext(file) ==
    LET d == LastDot(file)
    IN  IF d > 0 /\ \E i \in 1..(d-1) : file[i] # "."
        THEN SubSeq(file, d, Len(file))
        ELSE <<>>

\* x in formats (a list)
InList(x, list) == \E i \in 1..Len(list) : list[i] = x

\* set(list)
ToSet(list) == {list[i] : i \in 1..Len(list)}

ExtTmp == <<".", "t", "m", "p">>
ExtLog == <<".", "l", "o", "g">>
ExtLogMixed == <<".", "L", "o", "g">>

----------------------------------------------------------------------------
(* The task store *)

\* f"file_deletion_task_{n}"
TaskName(n) == <<"file_deletion_task_", n>>

NoTasks == [name \in {} |-> 0]

\* json.dump(tasks): one member per key of the dict
JsonDump(tasks) == {[key |-> name, value |-> tasks[name]] : name \in DOMAIN tasks}

\* a loader that returns nothing for an object of more than one member
JsonLoad_OneMember(members) ==
    [name \in {m.key : m \in {x \in members : \A y \in members : x.key = y.key}} |->
        (CHOOSE m \in members : m.key = name).value]

\* json.load of an object: the dict of its members
JsonLoad(members) ==
    [name \in {m.key : m \in members} |->
        (CHOOSE m \in members : m.key = name).value]

FileMissing == [state |-> "missing", content |-> "none", members |-> {}]

\* load_tasks(): the dict the file holds; {} for a missing file, for text
\* that is not JSON and for JSON that is not an object; any other OSError
\* of open() is not caught
load_tasks(file) ==
    CASE file.state = "missing" -> [raised |-> "none", tasks |-> NoTasks]
      [] file.state = "unreadable" -> [raised |-> "PermissionError", tasks |-> NoTasks]
      [] file.state = "directory" -> [raised |-> "IsADirectoryError", tasks |-> NoTasks]
      [] file.content = "undecodable" -> [raised |-> "UnicodeDecodeError", tasks |-> NoTasks]
      [] file.content \in {"empty", "malformed"} -> [raised |-> "none", tasks |-> NoTasks]
      [] file.content = "object" -> [raised |-> "none", tasks |-> JsonLoad(file.members)]
      [] OTHER -> [raised |-> "none", tasks |-> NoTasks]

\* save_tasks(tasks): the file holds the dump of tasks
save_tasks(tasks) == [state |-> "text", content |-> "object", members |-> JsonDump(tasks)]

\* the comparison with the formats compared as lists, not as sets
SameDetails_ListFormats(existing, interval, unit, directory, age_days, formats) ==
    /\ existing.interval = interval
    /\ existing.unit = unit
    /\ existing.directory = directory
    /\ existing.age_days = age_days
    /\ existing.formats = formats

\* the comparison of lines 82-88: one stored task against the arguments
SameDetails(existing, interval, unit, directory, age_days, formats) ==
    /\ existing.interval = interval
    /\ existing.unit = unit
    /\ existing.directory = directory
    /\ existing.age_days = age_days
    /\ ToSet(existing.formats) = ToSet(formats)

\* an add that does not look for a stored task of the same details
HasDuplicate_Never(tasks, d) == FALSE

\* the loop of lines 81-90: some stored task has the same details
HasDuplicate(tasks, d) ==
    \E name \in DOMAIN tasks :
        SameDetails(tasks[name], d.interval, d.unit, d.directory, d.age_days, d.formats)

\* task_name = f"file_deletion_task_{len(tasks) + 1}"
NewTaskName(tasks) == TaskName(Cardinality(DOMAIN tasks) + 1)

\* tasks[task_name] = new_task_details
WithTask(tasks, name, d) ==
    [n \in DOMAIN tasks \cup {name} |-> IF n = name THEN d ELSE tasks[n]]

\* the membership test left out
NotInTasks_Never(name, tasks) == FALSE

\* line 125: task_name not in tasks
NotInTasks(name, tasks) == name \notin DOMAIN tasks

\* del tasks[task_name]
WithoutTask(tasks, name) == [n \in DOMAIN tasks \ {name} |-> tasks[n]]

----------------------------------------------------------------------------
(* The scheduler (apscheduler's BackgroundScheduler) *)

\* the job of scheduler.add_job(file_deletion_task, trigger,
\*     args=[task_name, directory, age_days, formats], id=task_name)
Job(name, d) ==
    [id |-> name,
     trigger |-> [unit |-> d.unit, interval |-> d.interval],
     args |-> [task_name |-> name, directory |-> d.directory,
               age_days |-> d.age_days, formats |-> d.formats]]

\* add_job on a scheduler that was not started: the job joins the pending
\* jobs; ids are compared only when the scheduler starts
add_job(pending, job) == pending (+) SetToBag({job})

\* scheduler.get_job(id) on a scheduler that was not started
get_job(pending, id) == \E j \in BagToSet(pending) : j.id = id

\* scheduler.remove_job(id) on a scheduler that was not started: the first
\* pending job of that id is dropped
remove_job(pending, id) ==
    LET j == CHOOSE j \in BagToSet(pending) : j.id = id
    IN  pending (-) SetToBag({j})

\* load_and_schedule_tasks(): one add_job per stored task
ScheduleAll(pending, tasks) ==
    pending (+) SetToBag({Job(name, tasks[name]) : name \in DOMAIN tasks})

\* two pending jobs (or two copies of one) carry the same id
ConflictingIds(pending) ==
    \E j \in BagToSet(pending) :
        \/ CopiesIn(j, pending) > 1
        \/ \E k \in BagToSet(pending) : k # j /\ k.id = j.id

\* scheduler.start(): the pending jobs enter the job store one by one
\* (replace_existing is False); a second job of an id already there raises
\* ConflictingIdError
StartedJobs(pending) ==
    [id \in {j.id : j \in BagToSet(pending)} |->
        CHOOSE j \in BagToSet(pending) : j.id = id]

----------------------------------------------------------------------------
(* The file system the jobs scan *)

\* time.time() when a job runs
Now == 10 * SecondsPerDay

Dirs == {"/d", "/d/sub", "/u", "/gone"}

\* "/d/sub" is a subdirectory of "/d"
Children(dir) == IF dir = "/d" THEN {"/d/sub"} ELSE {}

\* what os.scandir(dir) does: "/u" cannot be listed, "/gone" does not exist
DirStatus(dir) ==
    CASE dir = "/u" -> "unlistable"
      [] dir = "/gone" -> "missing"
      [] OTHER -> "ok"

\* stat is "dangling" for a symbolic link to nothing (os.path.getmtime raises
\* FileNotFoundError); removable is FALSE for a file that os.remove is denied
File(dir, name, mtime, stat, removable) ==
    [dir |-> dir, name |-> name, mtime |-> mtime, stat |-> stat, removable |-> removable]

AllFiles ==
    { File("/d", <<"a", ".", "L", "O", "G">>, Now - 10 * SecondsPerDay, "ok", TRUE),
      File("/d", <<"b", ".", "t", "m", "p">>, Now - 7 * SecondsPerDay, "ok", TRUE),
      File("/d", <<"d", ".", "t", "m", "p">>, Now - 3 * SecondsPerDay, "ok", TRUE),
      File("/d", <<".", "l", "o", "g">>, Now - 10 * SecondsPerDay, "ok", TRUE),
      File("/d/sub", <<"c", ".", "t", "m", "p">>, Now - 7 * SecondsPerDay - 1, "ok", TRUE),
      File("/d/sub", <<"e", ".", "l", "o", "g">>, Now - 10 * SecondsPerDay, "ok", FALSE),
      File("/d/sub", <<"s", ".", "T", "m", "p">>, Now, "dangling", TRUE),
      File("/u", <<"g", ".", "t", "m", "p">>, Now - 10 * SecondsPerDay, "ok", TRUE) }

\* os.path.join(root, file)
Path(f) == <<f.dir, f.name>>

\* all the orders in which a set can be listed
Orders(S) ==
    {o \in [1..Cardinality(S) -> S] : \A i, j \in 1..Cardinality(S) : o[i] = o[j] => i = j}

\* os.walk(directory): the files of a directory in the order scandir gives
\* them, then those of its subdirectories; a directory that cannot be
\* listed (or does not exist) yields nothing and raises nothing
RECURSIVE WalkOrders(_, _)
WalkOrders(files, dir) ==
    IF DirStatus(dir) # "ok"
    THEN {<<>>}
    ELSE LET here == {f \in files : f.dir = dir}
             below == IF Children(dir) = {}
                      THEN {<<>>}
                      ELSE UNION {WalkOrders(files, c) : c \in Children(dir)}
         IN  {o \o b : o \in Orders(here), b \in below}

\* file_extension = os.path.splitext(file)[1].lower()
file_extension(f) == Lower(splitext(f.name))

\* cutoff_time = time.time() - (age_days * 86400)
cutoff_time(now, age_days) == now - (age_days * SecondsPerDay)

\* line 53, left of the and
ExtensionMatches(f, formats) == InList(file_extension(f), formats)

\* line 53, right of the and
OldEnough(f, cutoff) == f.mtime < cutoff

\* lines 49-56 over the files in walk order: the paths deleted so far and
\* the exception that ended the loop, if any
RECURSIVE Scan(_, _, _, _, _)
Scan(order, i, formats, cutoff, deleted) ==
    IF i > Len(order)
    THEN [deleted |-> deleted, error |-> "none"]
    ELSE LET f == order[i]
         IN  IF ~ExtensionMatches(f, formats)
             THEN Scan(order, i + 1, formats, cutoff, deleted)
             ELSE IF f.stat # "ok"
             THEN [deleted |-> deleted, error |-> "FileNotFoundError"]
             ELSE IF ~OldEnough(f, cutoff)
             THEN Scan(order, i + 1, formats, cutoff, deleted)
             ELSE IF ~f.removable
             THEN [deleted |-> deleted, error |-> "PermissionError"]
             ELSE Scan(order, i + 1, formats, cutoff, Append(deleted, Path(f)))

\* log_to_mongodb(task_name, details, status, level)
Report(task_name, status, level, deleted_files, error) ==
    [task_name |-> task_name, status |-> status, level |-> level,
     deleted_files |-> deleted_files, error |-> error]

\* lines 58-62: the report of an execution that raised nothing
SuccessReport(task_name, deleted) ==
    IF deleted # <<>>
    THEN Report(task_name, "Files deleted", "INFO", deleted, "none")
    ELSE Report(task_name, "No files deleted", "INFO", <<>>, "none")

\* no except clause: the exception leaves the job and nothing is reported
HandleException_Reraise(task_name, scanned) ==
    [reports |-> <<>>, propagated |-> TRUE]

\* lines 63-65: except Exception
HandleException(task_name, scanned) ==
    [reports |-> <<Report(task_name, "Error", "ERROR", <<>>, scanned.error)>>,
     propagated |-> FALSE]

\* what one execution did: the files it removed, the exception that ended
\* the loop (if any) and its calls of log_to_mongodb
Outcome(args, now, scanned) ==
    [task_name |-> args.task_name,
     directory |-> args.directory,
     cutoff |-> cutoff_time(now, args.age_days),
     formats |-> args.formats,
     removed |-> ToSet(scanned.deleted),
     error |-> scanned.error,
     propagated |-> IF scanned.error = "none"
                    THEN FALSE
                    ELSE HandleException(args.task_name, scanned).propagated,
     reports |-> IF scanned.error = "none"
                 THEN <<SuccessReport(args.task_name, scanned.deleted)>>
                 ELSE HandleException(args.task_name, scanned).reports]

\* file_deletion_task(task_name, directory, age_days, formats) along one
\* walk order at one time
file_deletion_task(args, order, now) ==
    CHOOSE r \in {Outcome(args, now, scanned) :
                    scanned \in {Scan(order, 1, args.formats,
                                      cutoff_time(now, args.age_days), <<>>)}} : TRUE

----------------------------------------------------------------------------
(* Inputs *)

Details(interval, unit, directory, age_days, formats) ==
    [interval |-> interval, unit |-> unit, directory |-> directory,
     age_days |-> age_days, formats |-> formats]

\* the arguments of --add that pass the check of line 175
AddInputs ==
    { Details(1, "days", "/d", 7, <<ExtTmp, ExtLog>>),
      Details(1, "days", "/d", 7, <<ExtLog, ExtTmp, ExtTmp>>),
      Details(2, "days", "/d", 7, <<ExtTmp, ExtLog>>),
      Details(1, "days", "/d", 7, <<ExtTmp>>) }

\* --add with --age-days 0: all(...) of line 175 is false
BadInputs == { Details(1, "days", "/d", 0, <<ExtTmp>>) }

\* the values that parse_args leaves when an option is not given
NoInput == Details(0, "", "", 0, <<>>)

\* the names --remove is given: every name add can produce, and one it cannot
RemoveInputs == {TaskName(n) : n \in 0..(MaxTasks + 1)}

\* line 175: not all((args.unit, args.directory, args.age_days, args.formats))
ArgsComplete(d) ==
    d.unit # "" /\ d.directory # "" /\ d.age_days # 0 /\ d.formats # <<>>

----------------------------------------------------------------------------
(* The processes *)

Idle ==
    [op |-> "none", pc |-> "idle", input |-> NoInput, name |-> TaskName(0),
     tasks |-> NoTasks, task_name |-> TaskName(0), pending |-> EmptyBag,
     printed |-> "none"]

DaemonOff == [pc |-> "off", pending |-> EmptyBag, jobs |-> NoTasks]

NoRun ==
    [task_name |-> TaskName(0), directory |-> "", cutoff |-> 0, formats |-> <<>>,
     removed |-> {}, error |-> "none", propagated |-> FALSE, reports |-> <<>>]

NoLoad == [called |-> FALSE, file |-> FileMissing, raised |-> "none", tasks |-> NoTasks]

\* no command is being run: the last one, if any, has ended
CliAtRest == cli.pc \in {"idle", "exited", "crashed"}

Init ==
    /\ tasksFile = FileMissing
    /\ cli = Idle
    /\ peer = Idle
    /\ daemon = DaemonOff
    /\ fs = AllFiles
    /\ run = NoRun
    /\ reported = <<>>
    /\ lastLoad = NoLoad
    /\ assigned = {}

\* load_and_schedule_tasks() of line 185 in a command's process, which then
\* ends (line 188)
CliReload ==
    /\ cli.pc = "reload"
    /\ LET l == load_tasks(tasksFile)
       IN  cli' = IF l.raised # "none"
                  THEN [cli EXCEPT !.pc = "crashed"]
                  ELSE [cli EXCEPT !.pc = "exited",
                                   !.pending = ScheduleAll(cli.pending, l.tasks)]
    /\ reported' = <<>>
    /\ UNCHANGED <<tasksFile, peer, daemon, fs, run, lastLoad, assigned>>

\* --add with incomplete arguments: lines 175-177, exit(1)
AddRejected(d) ==
    /\ CliAtRest
    /\ ~ArgsComplete(d)
    /\ cli' = [Idle EXCEPT !.op = "add", !.pc = "exited", !.input = d, !.printed = "usage"]
    /\ reported' = <<>>
    /\ UNCHANGED <<tasksFile, peer, daemon, fs, run, lastLoad, assigned>>

\* add_file_deletion_task, lines 69-90: load, name, duplicate check
AddCheck(d) ==
    /\ CliAtRest
    /\ ArgsComplete(d)
    /\ Cardinality(DOMAIN load_tasks(tasksFile).tasks) < MaxTasks
    /\ LET l == load_tasks(tasksFile)
           c == [Idle EXCEPT !.op = "add", !.input = d]
       IN  cli' = IF l.raised # "none"
                  THEN [c EXCEPT !.pc = "crashed"]
                  ELSE IF HasDuplicate(l.tasks, d)
                  THEN [c EXCEPT !.pc = "reload", !.tasks = l.tasks,
                                 !.task_name = NewTaskName(l.tasks),
                                 !.printed = "duplicate"]
                  ELSE [c EXCEPT !.pc = "save", !.tasks = l.tasks,
                                 !.task_name = NewTaskName(l.tasks)]
    /\ reported' = <<>>
    /\ UNCHANGED <<tasksFile, peer, daemon, fs, run, lastLoad, assigned>>

\* an add that goes on to arm the job without having written the store
AddSave_NotWritten ==
    /\ cli.op = "add" /\ cli.pc = "save"
    /\ cli' = [cli EXCEPT !.pc = "arm",
                          !.tasks = WithTask(cli.tasks, cli.task_name, cli.input)]
    /\ assigned' = assigned \cup {cli.task_name}
    /\ reported' = <<>>
    /\ UNCHANGED <<tasksFile, peer, daemon, fs, run, lastLoad>>

\* lines 93-96: tasks[task_name] = new_task_details; save_tasks(tasks)
AddSave ==
    /\ cli.op = "add" /\ cli.pc = "save"
    /\ LET new == WithTask(cli.tasks, cli.task_name, cli.input)
       IN  /\ tasksFile' = save_tasks(new)
           /\ cli' = [cli EXCEPT !.pc = "arm", !.tasks = new]
    /\ assigned' = assigned \cup {cli.task_name}
    /\ reported' = <<>>
    /\ UNCHANGED <<peer, daemon, fs, run, lastLoad>>

\* lines 99-104: scheduler.add_job, the report "Task added"
AddArm ==
    /\ cli.op = "add" /\ cli.pc = "arm"
    /\ cli' = [cli EXCEPT !.pc = "reload",
                          !.pending = add_job(cli.pending, Job(cli.task_name, cli.input)),
                          !.printed = "added"]
    /\ reported' = <<Report(TaskName(0), "Task added", "INFO", <<>>, "none")>>
    /\ UNCHANGED <<tasksFile, peer, daemon, fs, run, lastLoad, assigned>>

\* remove_file_deletion_task, lines 122-127: load, membership
RemoveCheck(name) ==
    /\ CliAtRest
    /\ LET l == load_tasks(tasksFile)
           c == [Idle EXCEPT !.op = "remove", !.name = name]
       IN  cli' = IF l.raised # "none"
                  THEN [c EXCEPT !.pc = "crashed"]
                  ELSE IF NotInTasks(name, l.tasks)
                  THEN [c EXCEPT !.pc = "reload", !.tasks = l.tasks,
                                 !.printed = "not found"]
                  ELSE [c EXCEPT !.pc = "save", !.tasks = l.tasks]
    /\ reported' = <<>>
    /\ UNCHANGED <<tasksFile, peer, daemon, fs, run, lastLoad, assigned>>

\* lines 130-131: del tasks[task_name]; save_tasks(tasks)
RemoveSave ==
    /\ cli.op = "remove" /\ cli.pc = "save"
    /\ LET new == WithoutTask(cli.tasks, cli.name)
       IN  /\ tasksFile' = save_tasks(new)
           /\ cli' = [cli EXCEPT !.pc = "disarm", !.tasks = new]
    /\ reported' = <<>>
    /\ UNCHANGED <<peer, daemon, fs, run, lastLoad, assigned>>

\* a remove that calls scheduler.remove_job without asking get_job first:
\* JobLookupError ends the process when the scheduler holds no such job
RemoveDisarm_NoLookup ==
    /\ cli.op = "remove" /\ cli.pc = "disarm"
    /\ IF get_job(cli.pending, cli.name)
       THEN /\ cli' = [cli EXCEPT !.pc = "reload",
                                  !.pending = remove_job(cli.pending, cli.name),
                                  !.printed = "removed"]
            /\ reported' = <<Report(TaskName(0), "Task removed", "INFO", <<>>, "none")>>
       ELSE /\ cli' = [cli EXCEPT !.pc = "crashed"]
            /\ reported' = <<>>
    /\ UNCHANGED <<tasksFile, peer, daemon, fs, run, lastLoad, assigned>>

\* lines 134-142: the job is removed from this process's scheduler if it
\* holds one
RemoveDisarm ==
    /\ cli.op = "remove" /\ cli.pc = "disarm"
    /\ IF get_job(cli.pending, cli.name)
       THEN /\ cli' = [cli EXCEPT !.pc = "reload",
                                  !.pending = remove_job(cli.pending, cli.name),
                                  !.printed = "removed"]
            /\ reported' = <<Report(TaskName(0), "Task removed", "INFO", <<>>, "none")>>
       ELSE /\ cli' = [cli EXCEPT !.pc = "reload", !.printed = "removed, was not running"]
            /\ reported' =
                   <<Report(TaskName(0), "Task not found in scheduler", "WARNING", <<>>, "none")>>
    /\ UNCHANGED <<tasksFile, peer, daemon, fs, run, lastLoad, assigned>>

\* list_file_deletion_tasks, lines 108-118
ListTasks ==
    /\ CliAtRest
    /\ LET l == load_tasks(tasksFile)
           c == [Idle EXCEPT !.op = "list"]
       IN  cli' = IF l.raised # "none"
                  THEN [c EXCEPT !.pc = "crashed"]
                  ELSE [c EXCEPT !.pc = "reload", !.tasks = l.tasks,
                                 !.printed = IF DOMAIN l.tasks = {} THEN "no tasks" ELSE "listed"]
    /\ reported' = <<>>
    /\ UNCHANGED <<tasksFile, peer, daemon, fs, run, lastLoad, assigned>>

\* no command given: load_and_schedule_tasks() of line 185
DaemonReload ==
    /\ daemon.pc = "off"
    /\ LET l == load_tasks(tasksFile)
       IN  daemon' = IF l.raised # "none"
                     THEN [DaemonOff EXCEPT !.pc = "crashed"]
                     ELSE [DaemonOff EXCEPT !.pc = "loaded",
                                            !.pending = ScheduleAll(EmptyBag, l.tasks)]
    /\ reported' = <<>>
    /\ UNCHANGED <<tasksFile, cli, peer, fs, run, lastLoad, assigned>>

\* lines 189-190 and 153: scheduler.start()
DaemonStart ==
    /\ daemon.pc = "loaded"
    /\ daemon' = IF ConflictingIds(daemon.pending)
                 THEN [daemon EXCEPT !.pc = "crashed"]
                 ELSE [daemon EXCEPT !.pc = "running", !.pending = EmptyBag,
                                     !.jobs = StartedJobs(daemon.pending)]
    /\ reported' = <<>>
    /\ UNCHANGED <<tasksFile, cli, peer, fs, run, lastLoad, assigned>>

\* KeyboardInterrupt, lines 196-198: scheduler.shutdown(), the process ends
DaemonStop ==
    /\ daemon.pc \in {"running", "crashed"}
    /\ daemon' = DaemonOff
    /\ reported' = <<>>
    /\ UNCHANGED <<tasksFile, cli, peer, fs, run, lastLoad, assigned>>

Next ==
    \/ \E d \in AddInputs : AddCheck(d)
    \/ \E d \in BadInputs : AddRejected(d)
    \/ AddSave
    \/ AddArm
    \/ \E name \in RemoveInputs : RemoveCheck(name)
    \/ RemoveSave
    \/ RemoveDisarm
    \/ ListTasks
    \/ CliReload
    \/ DaemonReload
    \/ DaemonStart
    \/ DaemonStop

Spec == Init /\ [][Next]_vars

----------------------------------------------------------------------------
(* The deletion job in a running daemon *)

\* the scheduler fires the job of one task: file_deletion_task runs with the
\* arguments the job holds; the job stays in the job store whatever happens
Fire(name) ==
    /\ daemon.pc = "running"
    /\ name \in DOMAIN daemon.jobs
    /\ \E order \in WalkOrders(fs, daemon.jobs[name].args.directory) :
          run' = file_deletion_task(daemon.jobs[name].args, order, Now)
    /\ fs' = {f \in fs : Path(f) \notin run'.removed}
    /\ reported' = run'.reports
    /\ UNCHANGED <<tasksFile, cli, peer, daemon, lastLoad, assigned>>

\* the formats a job may hold
JobFormats == {<<ExtLog>>, <<ExtLogMixed>>, <<ExtTmp>>, <<ExtTmp, ExtLog>>, <<>>}

\* the age_days a job may hold
JobAges == {0, 7}

JobInputs ==
    {Details(1, "days", dir, age, formats) :
        dir \in Dirs, age \in JobAges, formats \in JobFormats}

\* the second task of the daemon
OtherJobInputs ==
    {Details(2, "hours", "/d/sub", 7, <<ExtTmp>>), Details(2, "hours", "/d", 0, <<ExtLog>>)}

\* a daemon whose scheduler runs the jobs of two tasks
InitJob ==
    /\ tasksFile = FileMissing
    /\ cli = Idle
    /\ peer = Idle
    /\ \E d1 \in JobInputs, d2 \in OtherJobInputs :
          daemon = [pc |-> "running", pending |-> EmptyBag,
                    jobs |-> StartedJobs(SetToBag({Job(TaskName(1), d1),
                                                   Job(TaskName(2), d2)}))]
    /\ fs = AllFiles
    /\ run = NoRun
    /\ reported = <<>>
    /\ lastLoad = NoLoad
    /\ assigned = {}

NextJob == \E name \in {TaskName(1), TaskName(2)} : Fire(name)

SpecJob == InitJob /\ [][NextJob]_vars

----------------------------------------------------------------------------
(* The commands next to a daemon whose jobs fire *)

\* the commands and the daemon of Spec over a directory that holds one old
\* file, with the jobs of the running daemon firing
InitFire ==
    /\ tasksFile = FileMissing
    /\ cli = Idle
    /\ peer = Idle
    /\ daemon = DaemonOff
    /\ fs = {f \in AllFiles : f.dir = "/d/sub" /\ f.stat = "ok" /\ f.removable}
    /\ run = NoRun
    /\ reported = <<>>
    /\ lastLoad = NoLoad
    /\ assigned = {}

NextFire ==
    \/ Next
    \/ \E name \in {TaskName(n) : n \in 1..MaxTasks} : Fire(name)

SpecFire == InitFire /\ [][NextFire]_vars

----------------------------------------------------------------------------
(* load_tasks and save_tasks on any file *)

\* the dicts of at most MaxTasks tasks
Stores ==
    UNION {[names -> AddInputs] : names \in SUBSET {TaskName(n) : n \in 1..MaxTasks}}

\* what may be found at TASKS_FILE
StoreFiles ==
    {FileMissing,
     [state |-> "unreadable", content |-> "none", members |-> {}],
     [state |-> "directory", content |-> "none", members |-> {}],
     [state |-> "text", content |-> "empty", members |-> {}],
     [state |-> "text", content |-> "malformed", members |-> {}],
     [state |-> "text", content |-> "undecodable", members |-> {}],
     [state |-> "text", content |-> "array", members |-> {}]}
    \cup {save_tasks(m) : m \in Stores}

\* a caller calls load_tasks()
LoadTasks ==
    /\ LET l == load_tasks(tasksFile)
       IN  lastLoad' = [called |-> TRUE, file |-> tasksFile,
                        raised |-> l.raised, tasks |-> l.tasks]
    /\ UNCHANGED <<tasksFile, cli, peer, daemon, fs, run, reported, assigned>>

\* a caller calls save_tasks(m); open(TASKS_FILE, "w") fails on a file that
\* cannot be written
SaveTasks(m) ==
    /\ tasksFile.state \in {"missing", "text"}
    /\ tasksFile' = save_tasks(m)
    /\ UNCHANGED <<cli, peer, daemon, fs, run, reported, lastLoad, assigned>>

InitLoad ==
    /\ tasksFile \in StoreFiles
    /\ cli = Idle
    /\ peer = Idle
    /\ daemon = DaemonOff
    /\ fs = AllFiles
    /\ run = NoRun
    /\ reported = <<>>
    /\ lastLoad = NoLoad
    /\ assigned = {}

NextLoad ==
    \/ LoadTasks
    \/ \E m \in Stores : SaveTasks(m)

SpecLoad == InitLoad /\ [][NextLoad]_vars

----------------------------------------------------------------------------
(* Two command processes at the same time *)

\* the file after open(TASKS_FILE, "w") and before json.dump has written
FileTruncated == [state |-> "text", content |-> "empty", members |-> {}]

\* line 38, open(TASKS_FILE, "w"): the file is truncated before json.dump
\* writes; AddSave or RemoveSave is then the write and the close
SaveOpen ==
    /\ cli.op \in {"add", "remove"} /\ cli.pc = "save"
    /\ tasksFile # FileTruncated
    /\ tasksFile' = FileTruncated
    /\ reported' = <<>>
    /\ UNCHANGED <<cli, peer, daemon, fs, run, lastLoad, assigned>>

\* the operating system runs the other command process: every command is a
\* process of its own, and nothing in the program makes one wait for another
Switch ==
    /\ cli # peer
    /\ cli' = peer
    /\ peer' = cli
    /\ reported' = <<>>
    /\ UNCHANGED <<tasksFile, daemon, fs, run, lastLoad, assigned>>

\* the arguments the two processes are given
ConcAddInputs ==
    { Details(1, "days", "/d", 7, <<ExtTmp, ExtLog>>),
      Details(1, "days", "/d", 7, <<ExtTmp>>) }

ConcRemoveInputs == {TaskName(n) : n \in 1..MaxTasks}

NextConc ==
    \/ \E d \in ConcAddInputs : AddCheck(d)
    \/ AddSave
    \/ AddArm
    \/ \E name \in ConcRemoveInputs : RemoveCheck(name)
    \/ SaveOpen
    \/ RemoveSave
    \/ RemoveDisarm
    \/ CliReload
    \/ Switch
    \/ LoadTasks

SpecConc == Init /\ [][NextConc]_vars

----------------------------------------------------------------------------
(* Properties *)

\* the dict the store file holds
Stored == load_tasks(tasksFile).tasks

\* two task definitions are duplicates: the four scalars are equal and the
\* formats are equal as sets
Duplicates(a, b) ==
    /\ a.interval = b.interval
    /\ a.unit = b.unit
    /\ a.directory = b.directory
    /\ a.age_days = b.age_days
    /\ \A x \in ToSet(a.formats) : InList(x, b.formats)
    /\ \A x \in ToSet(b.formats) : InList(x, a.formats)

\* this step is the call of a command in a new process
Called(op) == CliAtRest /\ cli' # cli /\ cli'.op = op

\* C1: an add whose arguments duplicate a stored task (formats compared as
\* sets) is rejected: the call returns at once, the store file is unchanged
\* and the scheduler of the process holds no job.
C1_DuplicateRejected ==
    [][(/\ Called("add")
        /\ ArgsComplete(cli'.input)
        /\ \E name \in DOMAIN Stored : Duplicates(Stored[name], cli'.input))
       => (/\ cli'.pc = "reload"
           /\ cli'.printed = "duplicate"
           /\ cli'.pending = EmptyBag
           /\ tasksFile' = tasksFile
           /\ daemon' = daemon)]_vars

\* C1 witness: an add was rejected as a duplicate of a task whose formats
\* are another list of the same set
C1_Witness ==
    /\ cli.op = "add"
    /\ cli.printed = "duplicate"
    /\ \E name \in DOMAIN cli.tasks :
          /\ Duplicates(cli.tasks[name], cli.input)
          /\ cli.tasks[name].formats # cli.input.formats

\* C2: the name under which an add stores its task was never stored under
\* by an earlier add.
C2_NoNameReuse ==
    (cli.op = "add" /\ cli.pc = "save") => cli.task_name \notin assigned

\* C3: while the daemon runs and no command is in progress, every stored
\* task has a job in the daemon's scheduler.
C3_StoredTasksArmed ==
    (daemon.pc = "running" /\ CliAtRest)
        => \A name \in DOMAIN Stored : name \in DOMAIN daemon.jobs

\* the files in directory or below it
Below(dir) == {f \in AllFiles : f.dir = dir \/ f.dir \in Children(dir)}

\* the deletion predicate of the last execution
Candidate(f) ==
    /\ InList(Lower(splitext(f.name)), run.formats)
    /\ f.mtime < run.cutoff

Executed == run.reports # <<>> \/ run.propagated

\* C4: an execution that raises no error deletes exactly the files under
\* the directory whose lower-cased extension is in formats and whose mtime
\* is below the cutoff, and reports exactly their paths.
C4_DeletesExactlyCandidates ==
    (Executed /\ run.error = "none")
        => /\ \A f \in Below(run.directory) : Candidate(f) => f \notin fs
           /\ \A f \in AllFiles :
                 Path(f) \in run.removed => f \in Below(run.directory) /\ Candidate(f)
           /\ Len(run.reports) = 1
           /\ ToSet(run.reports[1].deleted_files) = run.removed

\* the file a.LOG of /d, older than every cutoff
FileA == File("/d", <<"a", ".", "L", "O", "G">>, Now - 10 * SecondsPerDay, "ok", TRUE)

\* C5: a.LOG, old enough, is deleted by a job on /d whose formats hold
\* ".log" or ".Log".
C5_CaseInsensitiveBothSides ==
    (/\ Executed
     /\ run.directory = "/d"
     /\ InList(ExtLog, run.formats) \/ InList(ExtLogMixed, run.formats))
        => FileA \notin fs

\* C6: a remove of a name that is not in the store reports not-found and
\* returns; the store file and the schedulers are unchanged.
C6_RemoveUnknown ==
    [][(Called("remove") /\ cli'.name \notin DOMAIN Stored)
       => (/\ cli'.pc = "reload"
           /\ cli'.printed = "not found"
           /\ cli'.pending = EmptyBag
           /\ tasksFile' = tasksFile
           /\ daemon' = daemon)]_vars

\* C6 witness: the second remove of a name that was stored and removed
C6_Witness ==
    /\ cli.op = "remove"
    /\ cli.printed = "not found"
    /\ cli.name \in assigned
    /\ tasksFile.state = "text"

\* the number of jobs of one id among the pending jobs
JobsOfId(pending, id) ==
    LET js == {j \in BagToSet(pending) : j.id = id}
    IN  IF js = {} THEN 0
        ELSE IF Cardinality(js) > 1 THEN 2
        ELSE CopiesIn(CHOOSE j \in js : TRUE, pending)

\* C7: after load_and_schedule_tasks the scheduler of a process holds one
\* job per stored task and never two of one id, and starting it raises no
\* id conflict.
C7_OneJobPerId ==
    /\ cli.pc = "exited" /\ cli.printed # "usage"
          => \A name \in DOMAIN Stored : JobsOfId(cli.pending, name) = 1
    /\ daemon.pc # "crashed"

\* a readable file that holds a JSON object
HoldsMapping(file) == file.state = "text" /\ file.content = "object"

\* C8: load_tasks returns normally on every file, and returns {} unless the
\* file is readable and holds a mapping.
C8_LoadNeverFails ==
    lastLoad.called
        => /\ lastLoad.raised = "none"
           /\ ~HoldsMapping(lastLoad.file) => lastLoad.tasks = NoTasks

\* C9: an error raised in an execution is caught in the job: it makes one
\* ERROR report, does not leave the job, and the jobs of both tasks stay in
\* the running scheduler.
C9_ErrorsContained ==
    (Executed /\ run.error # "none")
        => /\ Len(run.reports) = 1
           /\ run.reports[1].level = "ERROR"
           /\ run.reports[1].task_name = run.task_name
           /\ reported = run.reports
           /\ ~run.propagated
           /\ daemon.pc = "running"
           /\ DOMAIN daemon.jobs = {TaskName(1), TaskName(2)}

\* C9 witness: an execution deleted a file and then raised
C9_Witness == run.error # "none" /\ run.removed # {} /\ Len(run.reports) = 1

\* C10: an execution on a directory that does not exist or cannot be listed
\* reports a failure.
C10_MissingDirectoryFails ==
    (Executed /\ DirStatus(run.directory) # "ok")
        => /\ Len(run.reports) = 1
           /\ run.reports[1].level = "ERROR"
           /\ run.reports[1].error # "none"

\* C11: within one execution a file that cannot be deleted or examined
\* does not stop the scan: every other file under the (listable) directory
\* that satisfies the predicate and can be deleted is gone afterwards.
C11_BestEffortPerFile ==
    (Executed /\ DirStatus(run.directory) = "ok")
        => \A f \in Below(run.directory) :
              (Candidate(f) /\ f.stat = "ok" /\ f.removable) => f \notin fs

\* C19: every file an execution removed is in the deleted-list of a report
\* of that execution.
C19_DeletedFilesReported ==
    Executed
        => \A f \in AllFiles :
              Path(f) \in run.removed
                 => \E i \in 1..Len(run.reports) :
                       InList(Path(f), run.reports[i].deleted_files)

C14_AddNeverOverwrites ==
    [][(cli.op = "add" /\ cli.pc = "save" /\ cli'.pc = "arm")
          => /\ Cardinality(DOMAIN Stored') = Cardinality(DOMAIN Stored) + 1
             /\ \A name \in DOMAIN Stored :
                   name \in DOMAIN Stored' /\ Stored'[name] = Stored[name]]_vars

\* C15: when add calls scheduler.add_job the store file already holds the
\* new task, and no job of the task is held before the save; when remove
\* calls get_job/remove_job the store file no longer holds the task, and the
\* save of remove leaves the scheduler as it was.
C15_PersistBeforeArm ==
    [][/\ (cli.op = "add" /\ cli.pc = "save")
             => ~get_job(cli.pending, cli.task_name)
       /\ (cli.op = "add" /\ cli.pc = "arm" /\ cli'.pc = "reload")
             => /\ cli.task_name \in DOMAIN Stored
                /\ Stored[cli.task_name] = cli.input
                /\ ~get_job(cli.pending, cli.task_name)
                /\ get_job(cli'.pending, cli.task_name)
       /\ (cli.op = "remove" /\ cli.pc = "save" /\ cli'.pc = "disarm")
             => cli'.pending = cli.pending
       /\ (cli.op = "remove" /\ cli.pc = "disarm" /\ cli'.pc = "reload")
             => cli.name \notin DOMAIN Stored]_vars

\* C15 witness: an add has armed the job of the task it stored
C15_Witness ==
    /\ cli.op = "add" /\ cli.pc = "reload" /\ cli.printed = "added"
    /\ get_job(cli.pending, cli.task_name)
    /\ cli.task_name \in DOMAIN Stored

\* C20: no two names of the store file map to duplicate definitions (equal
\* interval, unit, directory, age_days and equal set of formats).
C20_NoDuplicatesStored ==
    \A a \in DOMAIN Stored : \A b \in DOMAIN Stored :
        a # b => ~Duplicates(Stored[a], Stored[b])

\* C20 witness: an add has stored a second task, next to a task of other
\* details stored under the other name
C20_Witness ==
    /\ cli.op = "add" /\ cli.printed = "added"
    /\ Cardinality(DOMAIN Stored) = 2
    /\ Cardinality(assigned) = 2
    /\ \E a \in DOMAIN Stored : Stored[a] # cli.input /\ a # cli.task_name

\* C16: a remove of a stored name deletes that entry of the store file and
\* no other, and returns without raising whether or not the scheduler of the
\* process holds a job of that name: a job that is held is removed, and a
\* scheduler that holds none is left unchanged.
C16_RemoveToleratesAbsentJob ==
    [][/\ (cli.op = "remove" /\ cli.pc = "save" /\ cli'.pc = "disarm")
             => /\ cli.name \in DOMAIN Stored
                /\ DOMAIN Stored' = DOMAIN Stored \ {cli.name}
                /\ \A name \in DOMAIN Stored' : Stored'[name] = Stored[name]
       /\ (cli.op = "remove" /\ cli.pc = "disarm" /\ cli' # cli)
             => /\ cli'.pc = "reload"
                /\ tasksFile' = tasksFile
                /\ IF get_job(cli.pending, cli.name)
                   THEN ~get_job(cli'.pending, cli.name)
                   ELSE cli'.pending = cli.pending
       /\ (cli.op = "remove" /\ cli'.op = "remove") => cli'.pc # "crashed"]_vars

\* C16 witness: a remove has deleted a stored task whose job the scheduler
\* did not hold, and another task is still stored
C16_Witness ==
    /\ cli.op = "remove" /\ cli.pc = "reload"
    /\ cli.printed = "removed, was not running"
    /\ cli.name \in assigned
    /\ cli.name \notin DOMAIN Stored
    /\ DOMAIN Stored # {}

\* the last command was a remove of this name, it deleted the entry from the
\* store file and its process has ended
RemoveCompleted(name) ==
    /\ cli.op = "remove" /\ cli.pc = "exited" /\ cli.name = name
    /\ cli.printed \in {"removed", "removed, was not running"}
    /\ name \notin DOMAIN Stored

\* C17: after a remove command of a task has completed, the running daemon
\* starts no execution of file_deletion_task for that task.
C17_RemovedNotFiredAgain ==
    [][(daemon.pc = "running" /\ run' # run) => ~RemoveCompleted(run'.task_name)]_vars

\* C12: a load_tasks that runs while commands save reads the file as it was
\* before a save or as it is after it: a file that is missing or holds a
\* whole mapping, never a file emptied by a save that has not written yet.
C12_SaveAtomic ==
    lastLoad.called => (lastLoad.file = FileMissing \/ HoldsMapping(lastLoad.file))

\* C18: the save of a command changes the store file by that command's
\* change only: what another command has stored or removed since this one
\* loaded is kept, and an add that did not load its name does not find it
\* taken when it saves.
C18_NoLostUpdate ==
    [][/\ (cli.op = "add" /\ cli.pc = "save" /\ cli'.pc = "arm"
              /\ peer' = peer /\ tasksFile # FileTruncated)
             => /\ Stored' = WithTask(Stored, cli.task_name, cli.input)
                /\ cli.task_name \in DOMAIN Stored => cli.task_name \in DOMAIN cli.tasks
       /\ (cli.op = "remove" /\ cli.pc = "save" /\ cli'.pc = "disarm"
              /\ peer' = peer /\ tasksFile # FileTruncated)
             => Stored' = WithoutTask(Stored, cli.name)]_vars

====
